---- MODULE Spec2Model ----
(***************************************************************************)
(* Model of the cultPlayBooking service (src/app.py): the booking cycle    *)
(* booking_task, the slot matcher, the booking executor, the scheduler     *)
(* thread with its start/stop functions, and the Telegram command          *)
(* dispatcher reached through the /webhook route.                          *)
(*                                                                         *)
(* Execution contexts: context 0 is the request handler that serves        *)
(* /webhook; contexts 1, 2, ... are the SchedulerThread objects created by *)
(* start_scheduler_background, in creation order.  Each context that is    *)
(* inside booking_task owns a record of that call's local variables.       *)
(***************************************************************************)
EXTENDS Integers, Sequences, FiniteSets, TLC

(***************************************************************************)
(* Bounds of the model.                                                    *)
(***************************************************************************)
\* Number of external events in one behaviour: webhook updates served plus
\* 22:00 trigger instants passed.
MaxEvents == 2

(***************************************************************************)
(* Configuration: BOOKING_PREFERENCES and environment variables.           *)
(***************************************************************************)
Centers == <<1106, 1107>>
SportId == 350
PreferredTimings == <<[hour |-> 8, minute |-> 0], [hour |-> 9, minute |-> 0]>>
\* chat.id values carried by incoming updates (JSON numbers).
ChatIds == {111, 222}

\* Python's None, for the values of the model that are strings or records.
None == "None"
\* last_run_time before any run (None in the code); instants are >= 1.
NoTime == 0
\* The execution context of the /webhook request handler.
WebCtx == 0

(***************************************************************************)
(* Characters and strings.  The strings the code inspects character by     *)
(* character (time labels, response titles) are sequences of one-character *)
(* strings.                                                                *)
(***************************************************************************)
UpperChars == <<"A","B","C","D","E","F","G","H","I","J","K","L","M",
                "N","O","P","Q","R","S","T","U","V","W","X","Y","Z">>
LowerChars == <<"a","b","c","d","e","f","g","h","i","j","k","l","m",
                "n","o","p","q","r","s","t","u","v","w","x","y","z">>
DigitChars == <<"0","1","2","3","4","5","6","7","8","9">>

\* str.lower() on one character.
LowerChar(c) ==
    IF \E k \in 1..Len(UpperChars) : UpperChars[k] = c
    THEN LowerChars[CHOOSE k \in 1..Len(UpperChars) : UpperChars[k] = c]
    ELSE c

\* str.lower()
Lower(s) == [k \in 1..Len(s) |-> LowerChar(s[k])]

\* `sub in s` for strings.
Contains(s, sub) ==
    \E k \in 0..(Len(s) - Len(sub)) :
        \A j \in 1..Len(sub) : s[k + j] = sub[j]

IsDigit(c) == \E k \in 1..Len(DigitChars) : DigitChars[k] = c
DigitVal(c) == (CHOOSE k \in 1..Len(DigitChars) : DigitChars[k] = c) - 1

\* int(s) succeeds: a non-empty run of decimal digits.
IntParses(s) == Len(s) > 0 /\ \A k \in 1..Len(s) : IsDigit(s[k])

RECURSIVE IntOf(_)
\* int(s) for a string of decimal digits.
IntOf(s) ==
    IF Len(s) = 0 THEN 0
    ELSE 10 * IntOf(SubSeq(s, 1, Len(s) - 1)) + DigitVal(s[Len(s)])

RECURSIVE Split(_, _)
\* s.split(sep) for a one-character separator.
Split(s, sep) ==
    IF \E k \in 1..Len(s) : s[k] = sep
    THEN LET k == CHOOSE k \in 1..Len(s) :
                     s[k] = sep /\ \A j \in 1..(k - 1) : s[j] # sep
         IN  <<SubSeq(s, 1, k - 1)>> \o Split(SubSeq(s, k + 1, Len(s)), sep)
    ELSE <<s>>

(***************************************************************************)
(* Slot Matcher: parse_time_string, matches_preferred_timing,              *)
(* display_available_slots.                                                *)
(***************************************************************************)
\* parse_time_string: [hour, minute], or hour = None when the label does not
\* parse (fewer than two fields, or a field int() rejects).
parse_time_string(time_str) ==
    LET parts == Split(time_str, ":")
        two   == IF Len(parts) > 2 THEN SubSeq(parts, 1, 2) ELSE parts
    IN  IF Len(two) = 2 /\ IntParses(two[1]) /\ IntParses(two[2])
        THEN [hour |-> IntOf(two[1]), minute |-> IntOf(two[2]), ok |-> TRUE]
        ELSE [hour |-> 0, minute |-> 0, ok |-> FALSE]

\* Mutant: only the hour is compared.
matches_preferred_hour(time_str) ==
    LET p == parse_time_string(time_str)
    IN  IF ~p.ok THEN FALSE
        ELSE \E k \in 1..Len(PreferredTimings) :
                 p.hour = PreferredTimings[k].hour

matches_preferred_timing(time_str) ==
    LET p == parse_time_string(time_str)
    IN  IF ~p.ok THEN FALSE
        ELSE \E k \in 1..Len(PreferredTimings) :
                 p.hour = PreferredTimings[k].hour
                 /\ p.minute = PreferredTimings[k].minute

\* The filter of display_available_slots on one class entry.
SlotMatches(slot, time_id, sport_id) ==
    /\ slot.workoutId = sport_id
    /\ slot.availableSeats > 0
    /\ matches_preferred_timing(time_id)

\* The candidate record display_available_slots appends for a class entry.
Candidate(slot, date_id, time_id) ==
    [class_id |-> slot.id, date |-> date_id, time |-> time_id,
     start_time_utc |-> slot.startDateTimeUTC, seats |-> slot.availableSeats]

RECURSIVE ClassesLoop(_, _, _, _)
\* The innermost loop: the candidates of one time group, in entry order.
ClassesLoop(classes, date_id, time_id, sport_id) ==
    IF Len(classes) = 0 THEN <<>>
    ELSE (IF SlotMatches(Head(classes), time_id, sport_id)
          THEN <<Candidate(Head(classes), date_id, time_id)>>
          ELSE <<>>)
         \o ClassesLoop(Tail(classes), date_id, time_id, sport_id)

RECURSIVE TimesLoop(_, _, _)
\* The middle loop: the candidates of one date group, in time-group order.
TimesLoop(times, date_id, sport_id) ==
    IF Len(times) = 0 THEN <<>>
    ELSE ClassesLoop(Head(times).classes, date_id, Head(times).id, sport_id)
         \o TimesLoop(Tail(times), date_id, sport_id)

RECURSIVE DatesLoop(_, _)
\* The outer loop: the candidates of the listing, in date-group order.
DatesLoop(dates, sport_id) ==
    IF Len(dates) = 0 THEN <<>>
    ELSE TimesLoop(Head(dates).classByTimeList, Head(dates).id, sport_id)
         \o DatesLoop(Tail(dates), sport_id)

\* A schedule document is [isdict, haskey, iterable, dates]: whether the JSON
\* value is an object, whether it has the key classByDateList, whether that
\* key's value can be iterated (a JSON null cannot: the for loop raises
\* TypeError), and the date groups.
\* display_available_slots: [raised, value]; value is None or a non-empty
\* sequence of candidates.
display_available_slots(schedule_data, sport_id) ==
    IF ~schedule_data.isdict \/ ~schedule_data.haskey
    THEN [raised |-> FALSE, isnone |-> TRUE, value |-> <<>>]
    ELSE IF ~schedule_data.iterable
    THEN [raised |-> TRUE, isnone |-> FALSE, value |-> <<>>]
    ELSE LET available == DatesLoop(schedule_data.dates, sport_id)
         IN  [raised |-> FALSE, isnone |-> (Len(available) = 0),
              value |-> available]

(***************************************************************************)
(* Timestamp derivation: convert_utc_to_timestamp.                         *)
(* A start-time string "<wd>, <day> <mon> <year> <hh>:<mm>:<ss><tz>" is    *)
(* the record of its fields; present = FALSE is a missing (None) value.    *)
(* A booking timestamp is [isnone, ms].                                    *)
(***************************************************************************)
WeekdayNames == {"Mon", "Tue", "Wed", "Thu", "Fri", "Sat", "Sun"}
MonthNames == <<"Jan", "Feb", "Mar", "Apr", "May", "Jun",
                "Jul", "Aug", "Sep", "Oct", "Nov", "Dec">>

IsLeap(y) == (y % 4 = 0 /\ y % 100 # 0) \/ y % 400 = 0

DaysInMonth(y, m) ==
    IF m = 2 THEN (IF IsLeap(y) THEN 29 ELSE 28)
    ELSE IF m \in {4, 6, 9, 11} THEN 30 ELSE 31

\* Days from 1970-01-01 to the civil date y-m-d (proleptic Gregorian).
DaysFromCivil(y, m, d) ==
    LET yy  == IF m <= 2 THEN y - 1 ELSE y
        era == yy \div 400
        yoe == yy - era * 400
        mp  == IF m > 2 THEN m - 3 ELSE m + 9
        doy == (153 * mp + 2) \div 5 + d - 1
        doe == yoe * 365 + yoe \div 4 - yoe \div 100 + doy
    IN  era * 146097 + doe - 719468

\* datetime.strptime(dt_str, "%a, %d %b %Y %H:%M:%S") accepts the string left
\* after utc_string.replace(" GMT", "").
StrptimeAccepts(st) ==
    /\ st.tz \in {"", " GMT"}
    /\ st.wd \in WeekdayNames
    /\ \E k \in 1..Len(MonthNames) : MonthNames[k] = st.mon
    /\ st.year \in 1..9999
    /\ st.day >= 1
    /\ st.day <= DaysInMonth(st.year,
                     CHOOSE k \in 1..Len(MonthNames) : MonthNames[k] = st.mon)
    /\ st.hh \in 0..23 /\ st.mm \in 0..59 /\ st.ss \in 0..59

convert_utc_to_timestamp(st) ==
    IF ~StrptimeAccepts(st) THEN [isnone |-> TRUE, ms |-> 0]
    ELSE LET m == CHOOSE k \in 1..Len(MonthNames) : MonthNames[k] = st.mon
             timestamp_seconds ==
                 DaysFromCivil(st.year, m, st.day) * 86400
                 + st.hh * 3600 + st.mm * 60 + st.ss
         IN  [isnone |-> FALSE, ms |-> timestamp_seconds * 1000]

\* booking_task lines 258-260: the timestamp of the chosen candidate.
BookingTimestamp(first) ==
    IF first.start_time_utc.present
    THEN convert_utc_to_timestamp(first.start_time_utc)
    ELSE [isnone |-> TRUE, ms |-> 0]

\* Mutant: the test of booking_timestamp is left out.
TimestampAlwaysUsed(ts) == TRUE

\* `if booking_timestamp:` (None and 0 are false).
TimestampTruthy(ts) == ~ts.isnone /\ ts.ms # 0

(***************************************************************************)
(* Booking Executor: book_slot.                                            *)
(* A transport outcome is [exc, status_code, json, header, title]: whether *)
(* requests.post raised; the status code; whether the body is a JSON       *)
(* object ("dict"), other JSON ("other") or not JSON ("bad"); whether      *)
(* data["header"] is an object ("dict"), absent ("absent") or another      *)
(* value ("other"); and the header's title ("" when absent).               *)
(***************************************************************************)
StrBooked == <<"B","o","o","k","e","d">>
StrConfirmed == <<"c","o","n","f","i","r","m","e","d">>

\* title = data.get("header", {}).get("title", "") or ""
TitleOf(resp) ==
    IF resp.json = "dict" /\ resp.header = "dict" THEN resp.title ELSE <<>>

\* Mutant: both keywords are looked for in the lower-cased title.
BookingConfirmedAnyCase(status_code, title) ==
    status_code = 200
    /\ (Contains(Lower(title), Lower(StrBooked))
        \/ Contains(Lower(title), StrConfirmed))

\* The success test of book_slot (line 186).
BookingConfirmed(status_code, title) ==
    status_code = 200
    /\ (Contains(title, StrBooked) \/ Contains(Lower(title), StrConfirmed))

\* book_slot: [ok, note, caught]: the returned boolean, the one notification
\* sent (of success or of failure), and whether the except clause ran.
book_slot(resp) ==
    IF resp.exc \/ (resp.json = "dict" /\ resp.header = "other")
    THEN [ok |-> FALSE, note |-> "booking_failure", caught |-> TRUE]
    ELSE IF BookingConfirmed(resp.status_code, TitleOf(resp))
    THEN [ok |-> TRUE, note |-> "booking_successful", caught |-> FALSE]
    ELSE [ok |-> FALSE, note |-> "booking_failure", caught |-> FALSE]

(***************************************************************************)
(* Inputs: the documents the two remote calls can return.                  *)
(* The sample instants lie in January 1970 so that the millisecond value   *)
(* stays inside TLC's 32-bit integers.                                     *)
(***************************************************************************)
Label0800 == <<"0","8",":","0","0">>
Label0805 == <<"0","8",":","0","5">>
Label0900 == <<"0","9",":","0","0">>
LabelNoColon == <<"0","8","0","0">>
LabelWord == <<"8","a","m",":","0","0">>

StartOk ==
    [present |-> TRUE, wd |-> "Fri", day |-> 2, mon |-> "Jan", year |-> 1970,
     hh |-> 2, mm |-> 30, ss |-> 0, tz |-> " GMT"]
StartLater == [StartOk EXCEPT !.hh = 3]
StartBadZone == [StartOk EXCEPT !.tz = " UTC"]
StartBadMonth == [StartOk EXCEPT !.mon = "Janvier"]
StartBadDay == [StartOk EXCEPT !.mon = "Feb", !.day = 30]
StartMissing == [StartOk EXCEPT !.present = FALSE]
StartEpoch == [StartOk EXCEPT !.wd = "Thu", !.day = 1, !.hh = 0, !.mm = 0]

MkSlot(id, workout, seats, start) ==
    [id |-> id, workoutId |-> workout, availableSeats |-> seats,
     startDateTimeUTC |-> start]
MkTime(label, classes) == [id |-> label, classes |-> classes]
MkDate(id, times) == [id |-> id, classByTimeList |-> times]
MkSchedule(dates) ==
    [isdict |-> TRUE, haskey |-> TRUE, iterable |-> TRUE, dates |-> dates]

\* Entries that fail exactly one of the three filter conditions.
NonMatchingTimes ==
    <<MkTime(Label0805, <<MkSlot("n1", SportId, 3, StartOk)>>),
      MkTime(Label0800, <<MkSlot("n2", SportId + 1, 3, StartOk),
                          MkSlot("n3", SportId, 0, StartOk)>>),
      MkTime(LabelNoColon, <<MkSlot("n4", SportId, 3, StartOk)>>),
      MkTime(LabelWord, <<MkSlot("n5", SportId, 3, StartOk)>>)>>

SchedNotDict == [MkSchedule(<<>>) EXCEPT !.isdict = FALSE, !.haskey = FALSE]
SchedNoKey == [MkSchedule(<<>>) EXCEPT !.haskey = FALSE]
SchedNull == [MkSchedule(<<>>) EXCEPT !.iterable = FALSE]
SchedEmpty == MkSchedule(<<>>)
SchedNoMatch == MkSchedule(<<MkDate("d1", NonMatchingTimes)>>)
SchedOne ==
    MkSchedule(<<MkDate("d1", NonMatchingTimes
                   \o <<MkTime(Label0900, <<MkSlot("s1", SportId, 2, StartOk)>>)>>)>>)
SchedTwo ==
    MkSchedule(<<MkDate("d1", <<MkTime(Label0800,
                                    <<MkSlot("s1", SportId, 1, StartOk),
                                      MkSlot("s2", SportId, 4, StartOk)>>)>>),
                 MkDate("d2", <<MkTime(Label0900,
                                    <<MkSlot("s3", SportId, 2, StartLater)>>)>>)>>)
SchedStart(start) ==
    MkSchedule(<<MkDate("d1", <<MkTime(Label0800,
                                    <<MkSlot("s1", SportId, 1, start),
                                      MkSlot("s2", SportId, 1, StartOk)>>)>>)>>)

ScheduleInputs ==
    {SchedNotDict, SchedNoKey, SchedNull, SchedEmpty, SchedNoMatch, SchedOne,
     SchedTwo, SchedStart(StartBadZone), SchedStart(StartBadMonth),
     SchedStart(StartBadDay), SchedStart(StartMissing), SchedStart(StartEpoch)}

\* What requests.get and resp.json() can do in get_center_schedule: raise
\* (timeout, connection error), return a body that is not JSON, or a document.
FetchOutcomes ==
    {[exc |-> TRUE, parses |-> FALSE, data |-> SchedEmpty],
     [exc |-> FALSE, parses |-> FALSE, data |-> SchedEmpty]}
    \cup {[exc |-> FALSE, parses |-> TRUE, data |-> d] : d \in ScheduleInputs}

\* get_center_schedule raises (the caller's except clause runs).
FetchRaises(r) == r.exc \/ ~r.parses

TitleBooked == <<"B","o","o","k","e","d","!">>
TitleSoldOut == <<"S","o","l","d"," ","o","u","t">>
TitleConfirmedCaps == <<"S","l","o","t"," ","C","O","N","F","I","R","M","E","D">>
TitleBookedLower == <<"b","o","o","k","e","d">>

MkResp(status, title) ==
    [exc |-> FALSE, status_code |-> status, json |-> "dict", header |-> "dict",
     title |-> title]

BookResponses ==
    {MkResp(200, TitleBooked), MkResp(200, TitleSoldOut),
     MkResp(200, TitleConfirmedCaps), MkResp(200, TitleBookedLower),
     MkResp(500, TitleBooked), MkResp(200, <<>>),
     [MkResp(200, TitleBooked) EXCEPT !.exc = TRUE],
     [MkResp(200, TitleBooked) EXCEPT !.json = "bad"],
     [MkResp(200, TitleBooked) EXCEPT !.json = "other"],
     [MkResp(200, TitleBooked) EXCEPT !.header = "absent"],
     [MkResp(200, TitleBooked) EXCEPT !.header = "other"]}

(***************************************************************************)
(* Commands.  A command token is a string of characters; handle_command    *)
(* lower-cases it before comparing.                                        *)
(***************************************************************************)
CmdStart == <<"/","s","t","a","r","t">>
CmdStatus == <<"/","s","t","a","t","u","s">>
CmdStartScheduler == <<"/","s","t","a","r","t","_","s","c","h","e","d","u","l","e","r">>
CmdStopScheduler == <<"/","s","t","o","p","_","s","c","h","e","d","u","l","e","r">>
CmdPreferences == <<"/","p","r","e","f","e","r","e","n","c","e","s">>
CmdEnableBooking == <<"/","e","n","a","b","l","e","_","b","o","o","k","i","n","g">>
CmdDisableBooking == <<"/","d","i","s","a","b","l","e","_","b","o","o","k","i","n","g">>
CmdRunNow == <<"/","r","u","n","_","n","o","w">>
CmdRunNowCaps == <<"/","R","u","n","_","N","o","w">>
CmdBogus == <<"/","b","o","o","k">>

CommandTokens ==
    {CmdStart, CmdStatus, CmdStartScheduler, CmdStopScheduler, CmdPreferences,
     CmdEnableBooking, CmdDisableBooking, CmdRunNow, CmdRunNowCaps, CmdBogus}

\* An update's message: a command token from a chat, or text that does not
\* start with "/" (iscommand = FALSE).
Updates ==
    [iscommand : {TRUE}, token : CommandTokens, chat_id : ChatIds]
    \cup [iscommand : {FALSE}, token : {CmdBogus}, chat_id : ChatIds]

RECURSIVE Str(_)
\* str(n) for a non-negative integer.
Str(n) ==
    IF n < 10 THEN <<DigitChars[n + 1]>>
    ELSE Str(n \div 10) \o <<DigitChars[(n % 10) + 1]>>

\* TELEGRAM_ADMIN_CHAT_ID is the string "111".
AdminChatIdStr == <<"1","1","1">>

\* Mutant: every chat passes the admin test.
is_admin_anyone(chat_id) == TRUE

is_admin(chat_id) == Str(chat_id) = AdminChatIdStr

(***************************************************************************)
(* State.                                                                  *)
(***************************************************************************)
VARIABLES
    enabled,            \* BOOKING_PREFERENCES["enabled"]
    booking_completed,  \* global booking_completed
    last_run_time,      \* global last_run_time (NoTime: None)
    last_status,        \* global last_status
    scheduler_event,    \* _scheduler_event.is_set()
    job,                \* the job registered with `schedule`: [id, next_run]
    day,                \* the clock: 1 + the number of 22:00 instants passed
    nevents,            \* external events so far: updates served, 22:00s passed
    nthreads,           \* SchedulerThread objects created so far
    web,                \* the /webhook handler: [pc, cmd, chat, reply, sent]
    thr,                \* scheduler threads: [pc, job]
    cyc,                \* per context, the locals of its booking_task call
    call                \* a direct call of a function: [fn, arg, out]

vars == <<enabled, booking_completed, last_run_time, last_status,
          scheduler_event, job, day, nevents, nthreads, web, thr, cyc, call>>

\* One thread is started at boot; every later one needs a command.
SchedThreads == 1..(MaxEvents + 1)
Contexts == {WebCtx} \cup SchedThreads

\* The values last_status takes.
StatusInitial == ""
StatusDisabled == "Booking disabled in preferences."
StatusSuccessful == "Booking successful."
StatusFailed == "Booking attempted but failed."
StatusNoTimestamp == "Could not parse slot timestamp."
StatusError == "Error during booking run: <e>"
StatusNoMatch == "No matching slots found."

\* schedule.clear(): no job registered.
NoJob == [id |-> 0, next_run |-> 0]

\* A context that is not inside booking_task.  Inside it: pc is the position
\* in the function; i the index of center_id in the centers list; found is
\* any_slot_found; slot is first["class_id"] and ts is booking_timestamp, both
\* as last assigned; raised tells that the except clause of line 273 ran;
\* exit names the return taken; log lists the calls the cycle has made.
IdleCycle ==
    [pc |-> "idle", i |-> 0, found |-> FALSE, slot |-> None,
     ts |-> [isnone |-> TRUE, ms |-> 0], raised |-> FALSE, exit |-> None,
     log |-> <<>>]

\* Mutant: the call does not record its start time (line 220 skipped).
EnterTaskUnrecorded == [IdleCycle EXCEPT !.pc = "gate"]

\* The call booking_task() is entered.
EnterTask == [IdleCycle EXCEPT !.pc = "start"]

\* One call made by a cycle: get_center_schedule ("fetch", with the center
\* and "ok" or "failed"), book_slot ("book", with the center and the slot) or
\* send_telegram ("note", with the kind of message; the slot message names
\* its center and class id).
Ev(kind, center, arg) == [ev |-> kind, c |-> center, arg |-> arg]
Logged(c, kind, center, arg) ==
    [c EXCEPT !.log = Append(@, Ev(kind, center, arg))]
Note(c, arg) == Logged(c, "note", 0, arg)

\* booking_task returns.
Exit(c, how) == [c EXCEPT !.pc = "done", !.exit = how]

\* The state in which app.run starts serving: the module's globals as
\* initialised at lines 37-58, after the start_scheduler_background() call of
\* the __main__ block (line 443) has registered the daily job and started
\* the first SchedulerThread.
\* No request is being served.
WebIdle ==
    [pc |-> "idle", cmd |-> <<>>, chat |-> 0, reply |-> None, sent |-> <<>>]

Globals ==
    /\ enabled = TRUE
    /\ booking_completed = FALSE
    /\ last_run_time = NoTime
    /\ last_status = StatusInitial
    /\ scheduler_event = TRUE
    /\ job = [id |-> 1, next_run |-> 2]
    /\ day = 1
    /\ nevents = 0
    /\ nthreads = 1
    /\ web = WebIdle
    /\ thr = [s \in SchedThreads |->
                IF s = 1 THEN [pc |-> "loop", job |-> 0]
                ELSE [pc |-> "none", job |-> 0]]
    /\ cyc = [t \in Contexts |-> IdleCycle]

\* No function is called apart from the service.
NoCall == [fn |-> "none", arg |-> None, out |-> None, done |-> FALSE]

Init == Globals /\ call = NoCall

(***************************************************************************)
(* Booking cycle: booking_task, one action per step of a call in context t.*)
(***************************************************************************)
\* Mutant: the loop consults the enabled preference before each center.
NextCenterCancellable(c) ==
    IF c.i < Len(Centers) /\ enabled
    THEN [c EXCEPT !.pc = "fetch", !.i = @ + 1]
    ELSE [c EXCEPT !.pc = "final"]

\* `for center_id in BOOKING_PREFERENCES["centers"]`: the next iteration, or
\* the statement after the try block when the list is exhausted.
NextCenter(c) ==
    IF c.i < Len(Centers)
    THEN [c EXCEPT !.pc = "fetch", !.i = @ + 1]
    ELSE [c EXCEPT !.pc = "final"]

\* Mutant: the last candidate is taken.
LastCandidate(available) == available[Len(available)]

\* Lines 241-243: `first = available[0]`.
FirstCandidate(available) == available[1]

\* Mutant: the gate is not consulted.
BookingEnabledIgnored(e) == TRUE

\* `BOOKING_PREFERENCES.get("enabled", True)` as tested at line 223.
BookingEnabled(e) == e

\* Mutant: `break` in place of `continue`.
AfterFetchFailureBreak(c) == [c EXCEPT !.pc = "final"]

\* Lines 234-236: the fetch raised; `continue`.
AfterFetchFailure(c) == NextCenter(c)

\* Line 241, `if available:` false: nothing more for this center.
AfterNoSlots(c) == NextCenter(c)

\* Lines 270-272: no usable timestamp; the iteration ends.
AfterNoTimestamp(c) == NextCenter(c)

\* Mutant: the same center is tried again after a failed booking.
AfterBookingFailureRetry(c) == [c EXCEPT !.pc = "fetch"]

\* Lines 268-269: book_slot returned False; the iteration ends.
AfterBookingFailure(c) == NextCenter(c)

\* Mutant: the `return` is missing and the loop goes on.
AfterBookingSuccessContinue(c) == NextCenter(c)

\* Line 267: `return` after a successful booking.
AfterBookingSuccess(c) == Exit(c, "booked")

\* Mutant: every run starts by resetting booking_completed.
TaskStartResetting(t) ==
    /\ cyc[t].pc = "start"
    /\ last_run_time' = day
    /\ booking_completed' = FALSE
    /\ cyc' = [cyc EXCEPT ![t].pc = "gate"]
    /\ UNCHANGED <<enabled, last_status, scheduler_event,
                   job, day, nevents, nthreads, web, thr>>
    /\ UNCHANGED call

\* Line 220.
TaskStart(t) ==
    /\ cyc[t].pc = "start"
    /\ last_run_time' = day
    /\ cyc' = [cyc EXCEPT ![t].pc = "gate"]
    /\ UNCHANGED <<enabled, booking_completed, last_status, scheduler_event,
                   job, day, nevents, nthreads, web, thr>>
    /\ UNCHANGED call

\* Lines 223-229.
TaskGate(t) ==
    /\ cyc[t].pc = "gate"
    /\ IF ~BookingEnabled(enabled)
       THEN /\ last_status' = StatusDisabled
            /\ cyc' = [cyc EXCEPT ![t] = Exit(Note(@, "disabled"), "disabled")]
       ELSE /\ cyc' = [cyc EXCEPT ![t].pc = "fetch", ![t].i = 1,
                                  ![t].found = FALSE]
            /\ UNCHANGED last_status
    /\ UNCHANGED <<enabled, booking_completed, last_run_time, scheduler_event,
                   job, day, nevents, nthreads, web, thr>>
    /\ UNCHANGED call

\* Lines 230-262 and 270-276: one center is fetched and matched; the cycle
\* goes on to book_slot, to the next center, or to the except clause.
TaskFetch(t) ==
    /\ cyc[t].pc = "fetch"
    /\ \E r \in FetchOutcomes :
         LET c      == cyc[t]
             center == Centers[c.i]
             c0     == Logged(c, "fetch", center, "failed")
             c1     == Logged(c, "fetch", center, "ok")
             av     == display_available_slots(r.data, SportId)
             first  == FirstCandidate(av.value)
             ts     == BookingTimestamp(first)
             c2     == [Logged(c1, "slot_available", center, first.class_id)
                          EXCEPT !.found = TRUE, !.slot = first.class_id,
                                 !.ts = ts]
         IN  IF FetchRaises(r)
             THEN /\ cyc' = [cyc EXCEPT ![t] = AfterFetchFailure(c0)]
                  /\ UNCHANGED last_status
             ELSE IF av.raised
             THEN /\ last_status' = StatusError
                  /\ cyc' = [cyc EXCEPT ![t] =
                               [Note(c1, "job_error") EXCEPT !.pc = "final",
                                                              !.raised = TRUE]]
             ELSE IF av.isnone
             THEN /\ cyc' = [cyc EXCEPT ![t] = AfterNoSlots(c1)]
                  /\ UNCHANGED last_status
             ELSE IF TimestampTruthy(ts)
             THEN /\ cyc' = [cyc EXCEPT ![t] = [c2 EXCEPT !.pc = "book"]]
                  /\ UNCHANGED last_status
             ELSE /\ last_status' = StatusNoTimestamp
                  /\ cyc' = [cyc EXCEPT ![t] =
                               AfterNoTimestamp(Note(c2, "no_timestamp"))]
    /\ UNCHANGED <<enabled, booking_completed, last_run_time, scheduler_event,
                   job, day, nevents, nthreads, web, thr>>
    /\ UNCHANGED call

\* Lines 263-264 and 268-269: book_slot is called and its result tested.
TaskBook(t) ==
    /\ cyc[t].pc = "book"
    /\ \E resp \in BookResponses :
         LET c  == cyc[t]
             b  == book_slot(resp)
             c1 == Note(Logged(c, "book", Centers[c.i], c.slot), b.note)
         IN  IF b.ok
             THEN /\ cyc' = [cyc EXCEPT ![t] = [c1 EXCEPT !.pc = "completed"]]
                  /\ UNCHANGED last_status
             ELSE /\ last_status' = StatusFailed
                  /\ cyc' = [cyc EXCEPT ![t] = AfterBookingFailure(c1)]
    /\ UNCHANGED <<enabled, booking_completed, last_run_time, scheduler_event,
                   job, day, nevents, nthreads, web, thr>>
    /\ UNCHANGED call

\* Mutant: without the `global` declaration line 265 assigns a local.
TaskCompletedLocal(t) ==
    /\ cyc[t].pc = "completed"
    /\ cyc' = [cyc EXCEPT ![t].pc = "status"]
    /\ UNCHANGED <<enabled, booking_completed, last_run_time, last_status,
                   scheduler_event, job, day, nevents, nthreads, web, thr>>
    /\ UNCHANGED call

\* Line 265.
TaskCompleted(t) ==
    /\ cyc[t].pc = "completed"
    /\ booking_completed' = TRUE
    /\ cyc' = [cyc EXCEPT ![t].pc = "status"]
    /\ UNCHANGED <<enabled, last_run_time, last_status, scheduler_event,
                   job, day, nevents, nthreads, web, thr>>
    /\ UNCHANGED call

\* Lines 266-267.
TaskStatus(t) ==
    /\ cyc[t].pc = "status"
    /\ last_status' = StatusSuccessful
    /\ cyc' = [cyc EXCEPT ![t] = AfterBookingSuccess(@)]
    /\ UNCHANGED <<enabled, booking_completed, last_run_time, scheduler_event,
                   job, day, nevents, nthreads, web, thr>>
    /\ UNCHANGED call

\* Mutant: the `if not any_slot_found` test is missing.
TaskFinalUnconditional(t) ==
    /\ cyc[t].pc = "final"
    /\ last_status' = StatusNoMatch
    /\ cyc' = [cyc EXCEPT ![t] = Exit(Note(@, "no_match"), "end")]
    /\ UNCHANGED <<enabled, booking_completed, last_run_time, scheduler_event,
                   job, day, nevents, nthreads, web, thr>>
    /\ UNCHANGED call

\* Lines 278-280, reached when the loop ends and after the except clause.
TaskFinal(t) ==
    /\ cyc[t].pc = "final"
    /\ IF ~cyc[t].found
       THEN /\ last_status' = StatusNoMatch
            /\ cyc' = [cyc EXCEPT ![t] = Exit(Note(@, "no_match"), "end")]
       ELSE /\ cyc' = [cyc EXCEPT ![t] = Exit(@, "end")]
            /\ UNCHANGED last_status
    /\ UNCHANGED <<enabled, booking_completed, last_run_time, scheduler_event,
                   job, day, nevents, nthreads, web, thr>>
    /\ UNCHANGED call

(***************************************************************************)
(* Scheduler: SchedulerThread.run, start_scheduler_background,             *)
(* stop_scheduler_background, and the daily job of the `schedule` library. *)
(***************************************************************************)
\* The clock passes the next 22:00.
Tick ==
    /\ nevents < MaxEvents
    /\ nevents' = nevents + 1
    /\ day' = day + 1
    /\ UNCHANGED <<enabled, booking_completed, last_run_time, last_status,
                   scheduler_event, job, nthreads, web, thr, cyc>>
    /\ UNCHANGED call

\* Line 292: `while _scheduler_event.is_set()`, tested after each sleep.
SchedLoop(s) ==
    /\ thr[s].pc = "loop"
    /\ thr' = [thr EXCEPT ![s].pc =
                 IF scheduler_event THEN "pending" ELSE "exited"]
    /\ UNCHANGED <<enabled, booking_completed, last_run_time, last_status,
                   scheduler_event, job, day, nevents, nthreads, web, cyc>>
    /\ UNCHANGED call

\* Line 294: schedule.run_pending() runs the registered job when it is due.
SchedRunPending(s) ==
    /\ thr[s].pc = "pending"
    /\ IF job.id # 0 /\ day >= job.next_run
       THEN /\ thr' = [thr EXCEPT ![s] = [pc |-> "job", job |-> job.id]]
            /\ cyc' = [cyc EXCEPT ![s] = EnterTask]
       ELSE /\ thr' = [thr EXCEPT ![s].pc = "loop"]
            /\ UNCHANGED cyc
    /\ UNCHANGED <<enabled, booking_completed, last_run_time, last_status,
                   scheduler_event, job, day, nevents, nthreads, web>>
    /\ UNCHANGED call

\* booking_task has returned to Job.run, which schedules the job's next run
\* (the job object may no longer be the registered one); then line 297.
SchedJobDone(s) ==
    /\ thr[s].pc = "job"
    /\ cyc[s].pc = "done"
    /\ job' = IF job.id = thr[s].job
              THEN [job EXCEPT !.next_run = day + 1] ELSE job
    /\ thr' = [thr EXCEPT ![s] = [pc |-> "loop", job |-> 0]]
    /\ cyc' = [cyc EXCEPT ![s] = IdleCycle]
    /\ UNCHANGED <<enabled, booking_completed, last_run_time, last_status,
                   scheduler_event, day, nevents, nthreads, web>>
    /\ UNCHANGED call

\* Mutant: the `is_set()` test of line 302 is missing.
start_scheduler_unguarded ==
    /\ job' = [id |-> nthreads + 1, next_run |-> day + 1]
    /\ scheduler_event' = TRUE
    /\ thr' = [thr EXCEPT ![nthreads + 1] = [pc |-> "loop", job |-> 0]]
    /\ nthreads' = nthreads + 1

\* start_scheduler_background: its effect, the boolean it returns, and the
\* messages it sends to the admin chat (line 313).
start_scheduler_background ==
    IF scheduler_event
    THEN UNCHANGED <<scheduler_event, job, thr, nthreads>>
    ELSE /\ job' = [id |-> nthreads + 1, next_run |-> day + 1]
         /\ scheduler_event' = TRUE
         /\ thr' = [thr EXCEPT ![nthreads + 1] = [pc |-> "loop", job |-> 0]]
         /\ nthreads' = nthreads + 1

StartReturns == ~scheduler_event

StartNotifies == IF scheduler_event THEN <<>> ELSE <<"scheduler_started">>

\* stop_scheduler_background: its effect, the boolean it returns, and the
\* messages it sends to the admin chat (line 323).
stop_scheduler_background ==
    IF ~scheduler_event
    THEN UNCHANGED <<scheduler_event, job>>
    ELSE /\ scheduler_event' = FALSE
         /\ job' = NoJob

StopReturns == scheduler_event

StopNotifies == IF scheduler_event THEN <<"scheduler_stopped">> ELSE <<>>

(***************************************************************************)
(* Command dispatcher: handle_command, reached from webhook().             *)
(***************************************************************************)
\* The handler holds the update it serves, the reply it is about to send,
\* and the messages the command has sent to the admin chat on its own.
Replied(command, chat_id, r, notes) ==
    web' = [pc |-> "respond", cmd |-> command, chat |-> chat_id, reply |-> r,
            sent |-> notes]

Reply(command, chat_id, r) == Replied(command, chat_id, r, <<>>)

handle_command(command, chat_id) ==
    LET cmd == Lower(command)
    IN  IF cmd = CmdStart
        THEN /\ Reply(command, chat_id, "help")
             /\ UNCHANGED <<enabled, scheduler_event, job, nthreads, thr, cyc>>
        ELSE IF ~is_admin(chat_id)
        THEN /\ Reply(command, chat_id, "unauthorized")
             /\ UNCHANGED <<enabled, scheduler_event, job, nthreads, thr, cyc>>
        ELSE IF cmd = CmdStatus
        THEN /\ Reply(command, chat_id, "status")
             /\ UNCHANGED <<enabled, scheduler_event, job, nthreads, thr, cyc>>
        ELSE IF cmd = CmdStartScheduler
        THEN /\ start_scheduler_background
             /\ Replied(command, chat_id,
                        IF StartReturns THEN "scheduler_started"
                        ELSE "scheduler_already_running",
                        StartNotifies)
             /\ UNCHANGED <<enabled, cyc>>
        ELSE IF cmd = CmdStopScheduler
        THEN /\ stop_scheduler_background
             /\ Replied(command, chat_id,
                        IF StopReturns THEN "scheduler_stopped"
                        ELSE "scheduler_not_running",
                        StopNotifies)
             /\ UNCHANGED <<enabled, nthreads, thr, cyc>>
        ELSE IF cmd = CmdPreferences
        THEN /\ Reply(command, chat_id, "preferences")
             /\ UNCHANGED <<enabled, scheduler_event, job, nthreads, thr, cyc>>
        ELSE IF cmd = CmdEnableBooking
        THEN /\ enabled' = TRUE
             /\ Reply(command, chat_id, "booking_enabled")
             /\ UNCHANGED <<scheduler_event, job, nthreads, thr, cyc>>
        ELSE IF cmd = CmdDisableBooking
        THEN /\ enabled' = FALSE
             /\ Reply(command, chat_id, "booking_disabled")
             /\ UNCHANGED <<scheduler_event, job, nthreads, thr, cyc>>
        ELSE IF cmd = CmdRunNow
        THEN /\ web' = [pc |-> "run", cmd |-> command, chat |-> chat_id,
                        reply |-> None, sent |-> <<>>]
             /\ cyc' = [cyc EXCEPT ![WebCtx] = EnterTask]
             /\ UNCHANGED <<enabled, scheduler_event, job, nthreads, thr>>
        ELSE /\ Reply(command, chat_id, "unknown_command")
             /\ UNCHANGED <<enabled, scheduler_event, job, nthreads, thr, cyc>>

\* Mutant: serving an update clears last_status.
WebhookClearingStatus ==
    /\ web.pc = "idle"
    /\ nevents < MaxEvents
    /\ nevents' = nevents + 1
    /\ \E u \in Updates :
         IF u.iscommand
         THEN handle_command(u.token, u.chat_id)
         ELSE UNCHANGED <<enabled, scheduler_event, job, nthreads, web, thr, cyc>>
    /\ last_status' = StatusInitial
    /\ UNCHANGED <<booking_completed, last_run_time, day>>
    /\ UNCHANGED call

\* webhook(): an update arrives; text that is not a command is acknowledged
\* and nothing else happens.
Webhook ==
    /\ web.pc = "idle"
    /\ nevents < MaxEvents
    /\ nevents' = nevents + 1
    /\ \E u \in Updates :
         IF u.iscommand
         THEN handle_command(u.token, u.chat_id)
         ELSE UNCHANGED <<enabled, scheduler_event, job, nthreads, web, thr, cyc>>
    /\ UNCHANGED <<booking_completed, last_run_time, last_status, day>>
    /\ UNCHANGED call

\* Lines 393-394: booking_task() has returned to handle_command.
WebRunDone ==
    /\ web.pc = "run"
    /\ cyc[WebCtx].pc = "done"
    /\ web' = [web EXCEPT !.pc = "respond", !.reply = "manual_run_executed"]
    /\ cyc' = [cyc EXCEPT ![WebCtx] = IdleCycle]
    /\ UNCHANGED <<enabled, booking_completed, last_run_time, last_status,
                   scheduler_event, job, day, nevents, nthreads, thr>>
    /\ UNCHANGED call

\* Lines 416-417: the reply is sent to the chat and the request ends.
WebRespond ==
    /\ web.pc = "respond"
    /\ web' = WebIdle
    /\ UNCHANGED <<enabled, booking_completed, last_run_time, last_status,
                   scheduler_event, job, day, nevents, nthreads, thr, cyc>>
    /\ UNCHANGED call

\* send_telegram(reply) and the return of webhook() read and write no shared
\* state, so they commute with every step of the other contexts: the reply
\* is sent before another context moves, which loses no interleaving of the
\* accesses to shared state.
Replying == web.pc = "respond"

Next ==
    \/ Webhook
    \/ WebRespond
    \/ ~Replying /\ Tick
    \/ ~Replying /\ WebRunDone
    \/ ~Replying /\ \E s \in SchedThreads : SchedLoop(s)
    \/ ~Replying /\ \E s \in SchedThreads : SchedRunPending(s)
    \/ ~Replying /\ \E s \in SchedThreads : SchedJobDone(s)
    \/ ~Replying /\ \E t \in Contexts : TaskStart(t)
    \/ ~Replying /\ \E t \in Contexts : TaskGate(t)
    \/ ~Replying /\ \E t \in Contexts : TaskFetch(t)
    \/ ~Replying /\ \E t \in Contexts : TaskBook(t)
    \/ ~Replying /\ \E t \in Contexts : TaskCompleted(t)
    \/ ~Replying /\ \E t \in Contexts : TaskStatus(t)
    \/ ~Replying /\ \E t \in Contexts : TaskFinal(t)

Spec == Init /\ [][Next]_vars

\* One step of the booking_task call of context t.
TaskStep(t) ==
    \/ TaskStart(t)
    \/ TaskGate(t)
    \/ TaskFetch(t)
    \/ TaskBook(t)
    \/ TaskCompleted(t)
    \/ TaskStatus(t)
    \/ TaskFinal(t)

\* Every call made inside booking_task returns: the HTTP requests carry
\* timeouts (lines 90, 101, 169) and the loops are over finite lists, so a
\* thread that is inside booking_task keeps taking its steps, and a reply
\* being sent is sent.
FairSpec ==
    /\ Spec
    /\ WF_vars(WebRespond)
    /\ \A t \in Contexts : WF_vars(~Replying /\ TaskStep(t))

(***************************************************************************)
(* Direct calls of the slot matcher and of the booking executor.  The      *)
(* schedule documents are grown group by group and entry by entry from the *)
(* documents of no content; a call is [fn, arg, out, done].                *)
(***************************************************************************)
\* Size of a schedule document: its date groups, time groups and entries.
MaxSize == 6

\* The labels of the time groups, and the entries by the filter conditions
\* they meet (the third condition is on the label).
TimeLabels == {Label0800, Label0805, LabelWord}
ClassKinds ==
    {[workoutId |-> SportId, availableSeats |-> 2],
     [workoutId |-> SportId + 1, availableSeats |-> 2],
     [workoutId |-> SportId, availableSeats |-> 0]}

\* The documents to start from: not a JSON object, no classByDateList key,
\* a null list, an empty list.
InitialDocs == {SchedNotDict, SchedNoKey, SchedNull, SchedEmpty}

TitleConfirmed == <<"C","o","n","f","i","r","m","e","d">>

\* What requests.post and resp.json() can give book_slot.
BookInputs ==
    [exc : BOOLEAN, status_code : {200, 500},
     json : {"dict", "bad", "other"}, header : {"dict", "absent", "other"},
     title : {TitleBooked, TitleSoldOut, TitleConfirmedCaps, TitleBookedLower,
              TitleConfirmed, <<>>}]

\* The document is a JSON object whose classByDateList is a list.
WellFormed(doc) == doc.isdict /\ doc.haskey /\ doc.iterable

RECURSIVE TimesSize(_)
TimesSize(times) ==
    IF Len(times) = 0 THEN 0
    ELSE 1 + Len(Head(times).classes) + TimesSize(Tail(times))

RECURSIVE DatesSize(_)
DatesSize(dates) ==
    IF Len(dates) = 0 THEN 0
    ELSE 1 + TimesSize(Head(dates).classByTimeList) + DatesSize(Tail(dates))

RECURSIVE TimesClasses(_)
TimesClasses(times) ==
    IF Len(times) = 0 THEN 0
    ELSE Len(Head(times).classes) + TimesClasses(Tail(times))

RECURSIVE NumClasses(_)
\* The number of class entries of a listing; entry ids count them.
NumClasses(dates) ==
    IF Len(dates) = 0 THEN 0
    ELSE TimesClasses(Head(dates).classByTimeList) + NumClasses(Tail(dates))

CallInit ==
    /\ Globals
    /\ call \in
         {[fn |-> "display_available_slots", arg |-> d, out |-> None,
           done |-> FALSE] : d \in InitialDocs}
         \cup {[fn |-> "book_slot", arg |-> r, out |-> None,
                done |-> FALSE] : r \in BookInputs}

\* The document of a matcher call not yet made can grow.
Growing ==
    /\ call.fn = "display_available_slots" /\ ~call.done
    /\ WellFormed(call.arg)
    /\ DatesSize(call.arg.dates) < MaxSize

\* A date group is appended to the listing.
AddDate ==
    /\ Growing
    /\ call' = [call EXCEPT !.arg.dates = Append(@, MkDate(Len(@) + 1, <<>>))]
    /\ UNCHANGED <<enabled, booking_completed, last_run_time, last_status,
                   scheduler_event, job, day, nevents, nthreads, web, thr, cyc>>

\* A time group is appended to the last date group.
AddTime ==
    /\ Growing
    /\ Len(call.arg.dates) > 0
    /\ \E label \in TimeLabels :
         LET d == Len(call.arg.dates)
         IN  call' = [call EXCEPT !.arg.dates[d].classByTimeList =
                                      Append(@, MkTime(label, <<>>))]
    /\ UNCHANGED <<enabled, booking_completed, last_run_time, last_status,
                   scheduler_event, job, day, nevents, nthreads, web, thr, cyc>>

\* A class entry is appended to the last time group.
AddClass ==
    /\ Growing
    /\ Len(call.arg.dates) > 0
    /\ LET d == Len(call.arg.dates)
           t == Len(call.arg.dates[d].classByTimeList)
       IN  /\ t > 0
           /\ \E k \in ClassKinds :
                call' = [call EXCEPT
                           !.arg.dates[d].classByTimeList[t].classes =
                               Append(@, MkSlot(NumClasses(call.arg.dates) + 1,
                                                k.workoutId, k.availableSeats,
                                                StartOk))]
    /\ UNCHANGED <<enabled, booking_completed, last_run_time, last_status,
                   scheduler_event, job, day, nevents, nthreads, web, thr, cyc>>

\* booking_task lines 238-243 on the document: display_available_slots is
\* called and, when it returns candidates, the first is taken.
MatchCenter ==
    /\ call.fn = "display_available_slots" /\ ~call.done
    /\ LET available == display_available_slots(call.arg, SportId)
       IN  call' = [call EXCEPT
                      !.done = TRUE,
                      !.out = [available |-> available,
                               first |-> IF available.raised \/ available.isnone
                                         THEN None
                                         ELSE FirstCandidate(available.value)]]
    /\ UNCHANGED <<enabled, booking_completed, last_run_time, last_status,
                   scheduler_event, job, day, nevents, nthreads, web, thr, cyc>>

\* book_slot is called and the transport outcome is the call's argument.
CallBookSlot ==
    /\ call.fn = "book_slot" /\ ~call.done
    /\ call' = [call EXCEPT !.done = TRUE, !.out = book_slot(call.arg)]
    /\ UNCHANGED <<enabled, booking_completed, last_run_time, last_status,
                   scheduler_event, job, day, nevents, nthreads, web, thr, cyc>>

CallNext ==
    \/ AddDate
    \/ AddTime
    \/ AddClass
    \/ MatchCenter
    \/ CallBookSlot

CallSpec == CallInit /\ [][CallNext]_vars

(***************************************************************************)
(* Vocabulary of the properties.                                           *)
(***************************************************************************)
\* The book_slot calls of a cycle, in order.
Attempts(c) == SelectSeq(c.log, LAMBDA e : e.ev = "book")

\* The get_center_schedule calls of a cycle, in order.
Fetches(c) == SelectSeq(c.log, LAMBDA e : e.ev = "fetch")

\* The cycle's latest call.
LastEv(c) == c.log[Len(c.log)]

\* The cycle has been told by book_slot that a booking succeeded.
Succeeded(c) ==
    \E k \in 1..Len(c.log) : c.log[k] = Ev("note", 0, "booking_successful")

\* The context is executing booking_task: entered and not yet returned.
Running(t) == cyc[t].pc \notin {"idle", "done"}

\* In this step the cycle of context t called book_slot, which failed.
BookingRejectedStep(t) ==
    /\ cyc[t].pc = "book"
    /\ cyc'[t].log = cyc[t].log
           \o <<Ev("book", Centers[cyc[t].i], cyc[t].slot),
                Ev("note", 0, "booking_failure")>>

\* In this step the cycle of context t called get_center_schedule, which
\* raised.
FetchFailedStep(t) ==
    /\ cyc[t].pc = "fetch"
    /\ cyc'[t].log = Append(cyc[t].log, Ev("fetch", Centers[cyc[t].i], "failed"))

\* The cycle goes on with the center after the i-th, or leaves the loop when
\* the i-th was the last.
GoesOnAfter(t, i) ==
    IF i < Len(Centers)
    THEN cyc'[t].pc = "fetch" /\ cyc'[t].i = i + 1
    ELSE cyc'[t].pc = "final"

(***************************************************************************)
(* Properties.                                                             *)
(***************************************************************************)
\* C1 (as stated): in one execution of booking_task at most one call of
\* book_slot is made across all centers.
C1_AtMostOneAttemptPerCycle ==
    \A t \in Contexts : Len(Attempts(cyc[t])) <= 1

\* C1 (amended): one execution of booking_task makes at most as many
\* book_slot calls as there are centers, and makes no call at all (fetch,
\* booking or notification) after book_slot has reported a success; a failed
\* attempt does not end the run.
C1_AttemptsPerCycle ==
    \A t \in Contexts :
        /\ Len(Attempts(cyc[t])) <= Len(Centers)
        /\ \A k \in 1..Len(cyc[t].log) :
               cyc[t].log[k] = Ev("note", 0, "booking_successful")
                   => k = Len(cyc[t].log)

\* C1 witness: a finished cycle that called book_slot twice.
C1_Witness ==
    \E t \in Contexts : cyc[t].pc = "done" /\ Len(Attempts(cyc[t])) = 2

\* C2 (as stated): no two executions of booking_task are in progress at the
\* same time.
C2_OneCycleAtATime ==
    Cardinality({t \in Contexts : Running(t)}) <= 1

\* C3: a cycle whose gate finds enabled false returns at once: no schedule
\* fetch and no booking submission, last_run_time recorded, last_status the
\* disabled status, booking_completed untouched; in every context, timer
\* thread or webhook handler.
C3_DisabledGate ==
    [][\A t \in Contexts :
         (cyc[t].pc = "gate" /\ ~enabled /\ cyc'[t] # cyc[t]) =>
            /\ cyc'[t].pc = "done" /\ cyc'[t].exit = "disabled"
            /\ Fetches(cyc'[t]) = <<>> /\ Attempts(cyc'[t]) = <<>>
            /\ last_status' = StatusDisabled
            /\ booking_completed' = booking_completed
            /\ last_run_time # NoTime /\ last_run_time' = last_run_time]_vars

\* C3 witness: a timer-driven cycle that left through the disabled gate.
C3_Witness ==
    \E s \in SchedThreads :
        /\ cyc[s].pc = "done" /\ cyc[s].exit = "disabled"
        /\ last_status = StatusDisabled /\ last_run_time # NoTime

\* C4: a command other than /start from a chat that is not the admin chat is
\* answered with the unauthorized reply and changes neither the preferences,
\* the scheduler state, the run state nor any cycle.
C4_UnauthorizedChangesNothing ==
    [][(/\ web.pc = "idle" /\ web'.pc # "idle"
        /\ Lower(web'.cmd) # CmdStart
        /\ Str(web'.chat) # AdminChatIdStr) =>
           /\ web'.pc = "respond" /\ web'.reply = "unauthorized"
           /\ UNCHANGED <<enabled, scheduler_event, job, nthreads, thr,
                          booking_completed, last_run_time, last_status,
                          cyc>>]_vars

\* C4 witness: /Run_Now from a chat that is not the admin chat is refused.
C4_Witness ==
    /\ web.pc = "respond" /\ web.reply = "unauthorized"
    /\ web.cmd = CmdRunNowCaps /\ web.chat = 222

\* C5: once booking_completed is true no step makes it false.
C5_CompletedMonotonic == [][booking_completed => booking_completed']_vars

\* C5 witness: booking_completed is true and a cycle that booked nothing has
\* run to its end and recorded that it found no matching slot.
C5_Witness ==
    /\ booking_completed
    /\ last_status = StatusNoMatch
    /\ \E t \in Contexts : cyc[t].pc = "done" /\ cyc[t].exit = "end"
                           /\ ~Succeeded(cyc[t])

\* C6: from the moment book_slot has reported success the cycle only sets
\* booking_completed, then sets last_status to the successful status, then
\* returns: it fetches nothing, books nothing and notifies nothing more.
C6_SuccessEndsCycle ==
    [][\A t \in Contexts :
         /\ (~Succeeded(cyc[t]) /\ Succeeded(cyc'[t])) =>
                /\ cyc'[t].pc = "completed"
                /\ LastEv(cyc'[t]) = Ev("note", 0, "booking_successful")
         /\ (Succeeded(cyc[t]) /\ cyc'[t] # cyc[t]) =>
                /\ cyc[t].pc \in {"completed", "status", "done"}
                /\ cyc[t].pc = "completed" =>
                       /\ booking_completed'
                       /\ cyc'[t] = [cyc[t] EXCEPT !.pc = "status"]
                /\ cyc[t].pc = "status" =>
                       /\ booking_completed'
                       /\ last_status' = StatusSuccessful
                       /\ cyc'[t] = [cyc[t] EXCEPT !.pc = "done",
                                                   !.exit = "booked"]
                /\ cyc[t].pc = "done" => cyc'[t] = IdleCycle]_vars

\* C6 witness: a cycle that booked at the first center and returned without
\* fetching the second.
C6_Witness ==
    \E t \in Contexts :
        /\ cyc[t].pc = "done" /\ cyc[t].exit = "booked"
        /\ Len(Fetches(cyc[t])) = 1 /\ Len(Centers) > 1
        /\ booking_completed /\ last_status = StatusSuccessful

\* C7: within one cycle no center is the target of two book_slot calls, and
\* every book_slot call submits the slot just announced for its center (the
\* first candidate of that center's listing).
C7_OneAttemptPerLocation ==
    \A t \in Contexts :
        LET log == cyc[t].log
        IN  /\ \A k, j \in 1..Len(log) :
                   (k # j /\ log[k].ev = "book" /\ log[j].ev = "book")
                       => log[k].c # log[j].c
            /\ \A k \in 1..Len(log) :
                   log[k].ev = "book" =>
                       /\ k > 1
                       /\ log[k - 1] = Ev("slot_available", log[k].c, log[k].arg)

\* C7 witness: a cycle whose attempt at the first center failed and which has
\* moved on to the second center.
C7_Witness ==
    \E t \in Contexts :
        /\ cyc[t].pc = "fetch" /\ cyc[t].i = 2
        /\ Len(Attempts(cyc[t])) = 1
        /\ Attempts(cyc[t])[1].c = Centers[1]

\* C8: a failed fetch or a rejected booking at a center does not end the
\* cycle (a rejection sets last_status to the attempted-but-failed status):
\* the cycle goes on with the next center, which it fetches next, and leaves
\* the loop only after the last center; the centers are fetched in list order.
C8_FailureContinues ==
    [][\A t \in Contexts :
         /\ FetchFailedStep(t) => GoesOnAfter(t, cyc[t].i)
         /\ BookingRejectedStep(t) =>
                /\ GoesOnAfter(t, cyc[t].i)
                /\ last_status' = StatusFailed
         /\ cyc[t].pc = "fetch" =>
                /\ Len(Fetches(cyc[t])) = cyc[t].i - 1
                /\ \A k \in 1..Len(Fetches(cyc[t])) :
                       Fetches(cyc[t])[k].c = Centers[k]]_vars

\* C8 witness: a cycle whose fetch failed at the first center and whose
\* booking was rejected at the second, both centers having been fetched.
C8_Witness ==
    \E t \in Contexts :
        /\ cyc[t].pc = "done"
        /\ cyc[t].log[1] = Ev("fetch", Centers[1], "failed")
        /\ Len(Fetches(cyc[t])) = 2
        /\ LastEv(cyc[t]) = Ev("note", 0, "booking_failure")
        /\ last_status = StatusFailed

\* C9: when the first candidate of a center has no timestamp (start time
\* missing or unparsable), book_slot is not called for that center,
\* last_status becomes the could-not-parse status and the cycle goes on with
\* the next center.
C9_NoTimestampSkipsBooking ==
    [][\A t \in Contexts :
         (/\ cyc[t].pc = "fetch"
          /\ Len(cyc'[t].log) >= Len(cyc[t].log) + 2
          /\ cyc'[t].log[Len(cyc[t].log) + 2]
                 = Ev("slot_available", Centers[cyc[t].i], cyc'[t].slot)
          /\ cyc'[t].ts.isnone) =>
            /\ cyc'[t].pc # "book"
            /\ Attempts(cyc'[t]) = Attempts(cyc[t])
            /\ last_status' = StatusNoTimestamp
            /\ GoesOnAfter(t, cyc[t].i)]_vars

\* C9 witness: a cycle that found a candidate without timestamp at the first
\* center, did not book it, and is about to fetch the second center.
C9_Witness ==
    \E t \in Contexts :
        /\ cyc[t].pc = "fetch" /\ cyc[t].i = 2
        /\ cyc[t].ts.isnone
        /\ LastEv(cyc[t]) = Ev("note", 0, "no_timestamp")
        /\ Attempts(cyc[t]) = <<>>
        /\ last_status = StatusNoTimestamp

\* C10 (as stated): when a cycle in which an exception reached the top-level
\* except clause ends, last_status still holds the error status that clause
\* recorded.
C10_ErrorStatusKept ==
    [][\A t \in Contexts :
         (/\ cyc[t].raised /\ cyc[t].pc = "final" /\ cyc'[t].pc = "done"
          /\ last_status = StatusError) =>
            last_status' = StatusError]_vars

\* Some center of the cycle yielded a candidate: a slot was announced.
Yielded(c) == \E k \in 1..Len(c.log) : c.log[k].ev = "slot_available"

\* The no-match notifications of a cycle.
NoMatchNotes(c) == SelectSeq(c.log, LAMBDA e : e = Ev("note", 0, "no_match"))

\* C11: a cycle that passed the gate and in which no center yielded a
\* candidate ends by setting last_status to the no-matching-slots status and
\* sending the no-match notification, the only one of the cycle and its last
\* call; no such notification is sent before the end; a cycle in which some
\* center yielded a candidate ends without that notification and never sets
\* last_status to the no-matching-slots status.
C11_NoMatchOnceAtEnd ==
    [][\A t \in Contexts :
         /\ (cyc[t].pc = "final" /\ cyc'[t].pc = "done") =>
                IF ~Yielded(cyc[t])
                THEN /\ last_status' = StatusNoMatch
                     /\ cyc'[t].log = Append(cyc[t].log, Ev("note", 0, "no_match"))
                     /\ Len(NoMatchNotes(cyc'[t])) = 1
                     /\ cyc'[t].exit = "end"
                ELSE /\ last_status' = last_status
                     /\ cyc'[t].log = cyc[t].log
                     /\ NoMatchNotes(cyc'[t]) = <<>>
         /\ cyc'[t].pc # "done" => NoMatchNotes(cyc'[t]) = <<>>
         /\ (Yielded(cyc'[t]) /\ cyc'[t] # cyc[t] /\ last_status' # last_status)
                => last_status' # StatusNoMatch]_vars

\* C11 witness: a cycle that fetched every center, was offered no candidate,
\* and ended with the single no-match notification and status.
C11_Witness ==
    \E t \in Contexts :
        /\ cyc[t].pc = "done" /\ cyc[t].exit = "end"
        /\ Len(Fetches(cyc[t])) = Len(Centers)
        /\ \A k \in 1..Len(Centers) : Fetches(cyc[t])[k].arg = "ok"
        /\ ~Yielded(cyc[t])
        /\ NoMatchNotes(cyc[t]) = <<Ev("note", 0, "no_match")>>
        /\ LastEv(cyc[t]) = Ev("note", 0, "no_match")
        /\ last_status = StatusNoMatch

\* The step serves a new update whose command, from the admin chat, is cmd.
AdminCommandStep(cmd) ==
    /\ web.pc = "idle" /\ web'.pc # "idle"
    /\ Lower(web'.cmd) = cmd
    /\ Str(web'.chat) = AdminChatIdStr

\* C12: /start_scheduler on an armed scheduler answers "already running",
\* registers no job, creates no thread, sends no notification and changes no
\* other state; /stop_scheduler on a disarmed scheduler answers "not running"
\* and likewise changes nothing; a start always leaves the scheduler armed
\* and a stop always leaves it disarmed, so that a repeated start (or stop)
\* is one of these no-ops.
C12_StartStopIdempotent ==
    [][/\ AdminCommandStep(CmdStartScheduler) =>
            /\ scheduler_event'
            /\ scheduler_event =>
                   /\ web'.reply = "scheduler_already_running"
                   /\ web'.sent = <<>>
                   /\ UNCHANGED <<scheduler_event, job, thr, nthreads, enabled,
                                  booking_completed, last_run_time,
                                  last_status, cyc>>
       /\ AdminCommandStep(CmdStopScheduler) =>
            /\ ~scheduler_event'
            /\ ~scheduler_event =>
                   /\ web'.reply = "scheduler_not_running"
                   /\ web'.sent = <<>>
                   /\ UNCHANGED <<scheduler_event, job, thr, nthreads, enabled,
                                  booking_completed, last_run_time,
                                  last_status, cyc>>]_vars

\* C12 witness: /start_scheduler was served while the scheduler started at
\* boot was armed: still one job, one thread, nothing sent.
C12_Witness ==
    /\ web.pc = "respond" /\ web.cmd = CmdStartScheduler
    /\ web.reply = "scheduler_already_running" /\ web.sent = <<>>
    /\ scheduler_event /\ nthreads = 1 /\ job.id = 1
    /\ \A s \in SchedThreads : s # 1 => thr[s].pc = "none"

\* The commands that do not run a cycle.
PlainCommands ==
    {CmdStart, CmdStatus, CmdPreferences, CmdEnableBooking, CmdDisableBooking,
     CmdStartScheduler, CmdStopScheduler}

\* The step serves a new update whose command is cmd, from any chat.
CommandStep(cmd) ==
    /\ web.pc = "idle" /\ web'.pc # "idle"
    /\ Lower(web'.cmd) = cmd

\* C18: serving /start, /status, /preferences, /enable_booking,
\* /disable_booking, /start_scheduler or /stop_scheduler leaves last_run_time,
\* last_status and booking_completed unchanged and starts no cycle; /status
\* and /preferences also leave the enabled preference, the armed flag, the
\* registered job and the threads unchanged; and every step that changes one
\* of the three fields is a step of a context that is inside booking_task.
C18_RunStateOnlyByCycles ==
    [][/\ \A cmd \in PlainCommands :
            CommandStep(cmd) =>
                /\ web'.pc = "respond"
                /\ UNCHANGED <<last_run_time, last_status, booking_completed,
                               cyc>>
       /\ \A cmd \in {CmdStatus, CmdPreferences} :
            CommandStep(cmd) =>
                UNCHANGED <<enabled, scheduler_event, job, nthreads, thr>>
       /\ <<last_run_time, last_status, booking_completed>>'
              # <<last_run_time, last_status, booking_completed>>
            => \E t \in Contexts : Running(t) /\ cyc'[t] # cyc[t]]_vars

\* C18 witness: /status is being answered to the admin after a cycle booked
\* a slot, with the run state that cycle left.
C18_Witness ==
    /\ web.pc = "respond" /\ web.reply = "status"
    /\ booking_completed /\ last_status = StatusSuccessful
    /\ last_run_time # NoTime

\* C19: in every reachable state, last_status being the booking-successful
\* status implies booking_completed, and last_status being non-empty implies
\* that last_run_time is set.
C19_RunStateConsistent ==
    /\ last_status = StatusSuccessful => booking_completed
    /\ last_status # StatusInitial => last_run_time # NoTime

\* C19 witness: the successful status stands, written by one cycle, while
\* another cycle is in progress.
C19_Witness ==
    /\ last_status = StatusSuccessful /\ booking_completed
    /\ last_run_time # NoTime
    /\ \E t \in Contexts : Running(t) /\ cyc[t].pc # "start"

\* The scheduler threads that have passed the test of the run flag and are
\* in run_pending or in the job it started.
Polling == {s \in SchedThreads : thr[s].pc \in {"pending", "job"}}

\* C20 (as stated): at any time at most one scheduler thread is running
\* pending jobs; a thread started before the latest one has exited or is
\* about to.
C20_OnePollingThread == Cardinality(Polling) <= 1

\* The cycle of context t has passed the enabled gate and has not returned.
PastGate(t) ==
    cyc[t].pc \in {"fetch", "book", "completed", "status", "final"}

\* The cycle of context t has returned through an exit of the loop: after a
\* booking, after the except clause, or after every center was fetched.
DefinedExit(t) ==
    /\ cyc[t].pc = "done"
    /\ \/ cyc[t].exit = "booked" /\ Succeeded(cyc[t])
       \/ cyc[t].exit = "end" /\ cyc[t].raised
       \/ /\ cyc[t].exit = "end"
          /\ Len(Fetches(cyc[t])) = Len(Centers)
          /\ \A k \in 1..Len(cyc[t].log) :
                 cyc[t].log[k].ev = "slot_available"
                     => cyc[t].log[k + 1].ev \in {"book", "note"}

\* C17: a cycle that has passed the enabled gate reaches one of its exits
\* (booked, every center fetched with each announced slot followed by its
\* booking attempt or the no-timestamp notice, or the except clause),
\* whatever commands are served meanwhile; serving /stop_scheduler or
\* /disable_booking changes no cycle in progress.
C17_NoMidCycleCancellation ==
    /\ \A t \in Contexts : [](PastGate(t) => <>DefinedExit(t))
    /\ [][(CommandStep(CmdStopScheduler) \/ CommandStep(CmdDisableBooking))
              => UNCHANGED cyc]_vars

\* C17 witness: /disable_booking has just been served while a timer-driven
\* cycle, past the gate, is between its first and its second center.
C17_Witness ==
    /\ web.pc = "respond" /\ web.reply = "booking_disabled" /\ ~enabled
    /\ \E s \in SchedThreads :
           /\ thr[s].pc = "job"
           /\ cyc[s].pc = "fetch" /\ cyc[s].i = 2

\* The positions <<date group, time group, entry>> of a listing's entries.
Positions(dates) ==
    UNION {UNION {{<<d, t, e>> :
                      e \in 1..Len(dates[d].classByTimeList[t].classes)} :
                  t \in 1..Len(dates[d].classByTimeList)} :
           d \in 1..Len(dates)}

EntryAt(dates, p) == dates[p[1]].classByTimeList[p[2]].classes[p[3]]
LabelAt(dates, p) == dates[p[1]].classByTimeList[p[2]].id

\* The label "HH:MM" of an hour and a minute.
Clock(h, m) ==
    <<DigitChars[(h \div 10) + 1], DigitChars[(h % 10) + 1], ":",
      DigitChars[(m \div 10) + 1], DigitChars[(m % 10) + 1]>>

\* The entry at p passes the three conditions: the target resource, a seat
\* left, and a label that is the time of a preferred (hour, minute).
Qualifies(dates, p) ==
    /\ EntryAt(dates, p).workoutId = SportId
    /\ EntryAt(dates, p).availableSeats > 0
    /\ \E k \in 1..Len(PreferredTimings) :
           LabelAt(dates, p)
               = Clock(PreferredTimings[k].hour, PreferredTimings[k].minute)

\* The matcher has been called on a well-formed document.
Matched == call.fn = "display_available_slots" /\ call.done /\ WellFormed(call.arg)

\* p precedes q in date-then-time-group-then-entry order.
Precedes(p, q) ==
    \/ p[1] < q[1]
    \/ p[1] = q[1] /\ p[2] < q[2]
    \/ p[1] = q[1] /\ p[2] = q[2] /\ p[3] < q[3]

\* The position of the entry a candidate was made from.
PosOf(dates, candidate) ==
    CHOOSE p \in Positions(dates) : EntryAt(dates, p).id = candidate.class_id

\* C13: on a well-formed listing display_available_slots does not raise and
\* returns a candidate for an entry exactly when the entry has the target
\* workoutId, more than 0 available seats and a time label that denotes a
\* preferred (hour, minute): "08:00" does, "08:05" does not, and a label that
\* does not parse excludes the entry.
C13_CandidateIffThreePredicates ==
    Matched =>
        LET dates == call.arg.dates
            value == call.out.available.value
        IN  /\ ~call.out.available.raised
            /\ \A p \in Positions(dates) :
                   Qualifies(dates, p) <=>
                       \E k \in 1..Len(value) :
                           value[k].class_id = EntryAt(dates, p).id
            /\ \A k \in 1..Len(value) :
                   \E p \in Positions(dates) :
                       /\ value[k].class_id = EntryAt(dates, p).id
                       /\ value[k].time = LabelAt(dates, p)
                       /\ value[k].date = dates[p[1]].id
                       /\ value[k].seats = EntryAt(dates, p).availableSeats

\* C13 witness: a listing with an entry of the target resource with seats
\* under "08:05", another under "08:00", and a third under "08:00" without
\* seats; only the second became a candidate.
C13_Witness ==
    /\ Matched
    /\ \E p, q, r \in Positions(call.arg.dates) :
           /\ LabelAt(call.arg.dates, p) = Label0805
           /\ LabelAt(call.arg.dates, q) = Label0800
           /\ LabelAt(call.arg.dates, r) = Label0800
           /\ \A x \in {p, q, r} : EntryAt(call.arg.dates, x).workoutId = SportId
           /\ EntryAt(call.arg.dates, p).availableSeats > 0
           /\ EntryAt(call.arg.dates, q).availableSeats > 0
           /\ EntryAt(call.arg.dates, r).availableSeats = 0
           /\ Len(call.out.available.value) = 1
           /\ call.out.available.value[1].class_id = EntryAt(call.arg.dates, q).id

\* C14: the candidates display_available_slots returns are in the order of
\* the listing (date groups, then time groups, then entries), and the
\* candidate booking_task takes is the qualifying entry that comes first in
\* that order.
C14_OrderPreservedFirstTaken ==
    (Matched /\ ~call.out.available.isnone) =>
        LET dates == call.arg.dates
            value == call.out.available.value
        IN  /\ \A k, j \in 1..Len(value) :
                   k < j => Precedes(PosOf(dates, value[k]), PosOf(dates, value[j]))
            /\ \A p \in Positions(dates) :
                   Qualifies(dates, p) =>
                       \/ p = PosOf(dates, call.out.first)
                       \/ Precedes(PosOf(dates, call.out.first), p)

\* C14 witness: a listing whose first entry does not qualify, with a
\* qualifying entry after it in the same time group and another in a later
\* time group; the candidate taken is the second entry of the listing.
C14_Witness ==
    /\ Matched
    /\ Len(call.out.available.value) = 2
    /\ PosOf(call.arg.dates, call.out.available.value[1]) = <<1, 1, 2>>
    /\ PosOf(call.arg.dates, call.out.available.value[2])[2] = 2
    /\ call.out.first = call.out.available.value[1]

\* C15 (as stated): the result of display_available_slots for a well-formed
\* listing in which no entry qualifies is not the value it returns for input
\* that is not an object or lacks the classByDateList key.
C15_MalformedDistinguished ==
    (Matched /\ \A p \in Positions(call.arg.dates) : ~Qualifies(call.arg.dates, p))
        => /\ call.out.available # display_available_slots(SchedNotDict, SportId)
           /\ call.out.available # display_available_slots(SchedNoKey, SportId)

\* The title contains "confirmed" in some mix of upper and lower case.
HasConfirmedAnyCase(title) ==
    \E k \in 0..(Len(title) - Len(StrConfirmed)) :
        \A j \in 1..Len(StrConfirmed) :
            \/ title[k + j] = StrConfirmed[j]
            \/ \E i \in 1..Len(LowerChars) :
                   LowerChars[i] = StrConfirmed[j] /\ title[k + j] = UpperChars[i]

\* The title contains "Booked", in this case exactly.
HasBooked(title) ==
    \E k \in 1..(Len(title) - Len(StrBooked) + 1) :
        SubSeq(title, k, k + Len(StrBooked) - 1) = StrBooked

\* C16: book_slot returns True exactly when the request did not raise, the
\* status is 200 and the body is a JSON object whose header title contains
\* "Booked" (exact case) or "confirmed" (any case); in every other outcome it
\* returns False; it sends one notification, of success when it returns True
\* and of failure otherwise.
C16_SuccessIffConfirmed ==
    (call.fn = "book_slot" /\ call.done) =>
        LET r == call.arg
            confirmed ==
                /\ ~r.exc /\ r.status_code = 200
                /\ r.json = "dict" /\ r.header = "dict"
                /\ (HasBooked(r.title) \/ HasConfirmedAnyCase(r.title))
        IN  /\ call.out.ok <=> confirmed
            /\ call.out.note = IF confirmed THEN "booking_successful"
                               ELSE "booking_failure"

\* C16 witness: a 200 response whose title is "booked" in lower case was
\* classified as a failure.
C16_Witness ==
    /\ call.fn = "book_slot" /\ call.done
    /\ ~call.arg.exc /\ call.arg.status_code = 200
    /\ call.arg.json = "dict" /\ call.arg.header = "dict"
    /\ call.arg.title = TitleBookedLower
    /\ ~call.out.ok /\ call.out.note = "booking_failure"

====
